---- MODULE Spec2Model ----
(***************************************************************************)
(* Payment / disbursement orchestration of notipay-gobackend               *)
(* (services.PaymentService).  Every handler runs in its own request       *)
(* goroutine; a handler is split into steps at each round trip to the      *)
(* MongoDB store or to the gateway, so that concurrent requests            *)
(* interleave exactly where the code lets them.                            *)
(*                                                                         *)
(* Identifiers: a 24 character hex string is modelled by a positive        *)
(* integer, the empty string by 0 and a string that is not valid hex       *)
(* (such as "asd") by a negative integer.  A BSON value stored under _id   *)
(* keeps its BSON type: MongoDB never matches a string against an          *)
(* ObjectID of the same hex digits.                                        *)
(*                                                                         *)
(* Three specifications: Spec, the handlers run by concurrent goroutines;  *)
(* SeqSpec, the handlers called one after another; FnSpec, the pure        *)
(* functions (wallet-number test, maskSensitiveFields) applied to each     *)
(* argument of a bounded set.                                              *)
(***************************************************************************)
EXTENDS Integers, Sequences, FiniteSets, TLC

\* ------------------------------------------------------------------ bounds
\* request goroutines that may run concurrently
NumProcs == 2

\* handler invocations in one behaviour
MaxOps == 3

\* hex values that primitive.NewObjectID hands out in one behaviour
MaxPayments == 2

\* fields of a CreatePayment request that may be invalid at once
MaxFaults == 1

\* longest wallet number handed to the wallet-number test
MaxNumberLen == 12

\* longest email address over the alphabet of the masking inputs
MaxEmailLen == 6

\* -------------------------------------------------------- program constants
\* payeeID = "68d6aadf4ee098645ac87d5d"
FixedPayeeID == 100

\* for retries := 3; retries > 0; retries--
MaxRetries == 3

\* http.StatusOK, http.StatusCreated, http.StatusAccepted
StatusOK == 200

StatusCreated == 201

StatusAccepted == 202

\* len(payee.GCashNumber) != 11
GCashLen == 11

Procs == 1..NumProcs

\* the empty string
Empty == 0

\* a string that primitive.ObjectIDFromHex rejects
BadHex == -1

\* a user id that is valid hex and differs from the fixed payee
PayerHex == FixedPayeeID + 1

\* ------------------------------------------------------------- BSON values
BsonString(h) == [kind |-> "string", hex |-> h]

BsonObjectID(h) == [kind |-> "objectID", hex |-> h]

\* primitive.ObjectIDFromHex: succeeds on valid hex only
ObjectIDFromHex(s) == IF s > 0 THEN [ok |-> TRUE, oid |-> BsonObjectID(s)] ELSE [ok |-> FALSE, oid |-> BsonObjectID(0)]

\* bson StringCodec decoding of _id into Payment.ID (string): a string as is,
\* an ObjectID as its hex form
DecodeID(v) == v.hex

NoPayment == [_id |-> [kind |-> "none", hex |-> 0], reference_id |-> Empty, payer_id |-> Empty, payee_id |-> Empty, amount |-> 0, title |-> "", description |-> "", status |-> "", invoice_id |-> Empty, disbursement_id |-> Empty, created_at |-> 0, updated_at |-> 0]

\* ------------------------------------------------------------------ strings
\* A string whose characters matter (a wallet number, an email address, a
\* value of a request body) is the sequence of its characters.  An optional
\* value (a key of a JSON object, present or not) is a sequence of length 0
\* or 1.
None == <<>>

Some(v) == <<v>>

\* strings.HasPrefix
HasPrefix(s, prefix) == Len(s) >= Len(prefix) /\ SubSeq(s, 1, Len(prefix)) = prefix

\* strings.Split(s, sep) for a separator of one character: always at least
\* one part
RECURSIVE Split(_, _)
Split(s, sep) == IF \E i \in 1..Len(s) : s[i] = sep THEN LET i == CHOOSE k \in 1..Len(s) : s[k] = sep /\ \A j \in 1..(k - 1) : s[j] # sep IN <<SubSeq(s, 1, i - 1)>> \o Split(SubSeq(s, i + 1, Len(s)), sep) ELSE <<s>>

\* --------------------------------------------------------------- user store
ValidGCash == <<"0", "9", "1", "2", "3", "4", "5", "6", "7", "8", "9">>

NoLeadingZeroGCash == <<"1", "2", "3", "4", "5", "6", "7", "8", "9", "0", "1">>

ShortGCash == <<"0", "9", "1", "2", "3", "4", "5", "6", "7">>

\* faulty variants of GCashFormatOK (sensitivity of C18 and C19): the length
\* is not tested; the prefix is not tested
GCashPrefixOnly(n) == HasPrefix(n, <<"0">>)

GCashLengthOnly(n) == Len(n) = GCashLen

\* the test both handlers apply to payee.GCashNumber, negated:
\* !strings.HasPrefix(n, "0") || len(n) != 11
GCashFormatOK(n) == ~(~HasPrefix(n, <<"0">>) \/ Len(n) # GCashLen)

PayerEmail == <<"p", "a", "y", "e", "r", "@", "x">>

PayeeEmail == <<"p", "a", "y", "e", "e", "@", "x">>

\* an address without "@": only emptiness is tested before it is used
NoAtEmail == <<"p", "a", "y", "e", "r">>

NoUser == [found |-> FALSE, email |-> <<>>, gcash |-> <<>>]

User(email, gcash) == [found |-> TRUE, email |-> email, gcash |-> gcash]

\* The "user" collection belongs to UserService and is only read here: what a
\* FindOne on it returns is an input of the step that performs the read.
PayeeChoices == {NoUser, User(PayeeEmail, ValidGCash), User(PayeeEmail, <<>>), User(PayeeEmail, NoLeadingZeroGCash), User(PayeeEmail, ShortGCash)}

PayerChoices == {NoUser, User(PayerEmail, ValidGCash), User(<<>>, ValidGCash), User(PayerEmail, <<>>), User(NoAtEmail, ValidGCash)}

\* ------------------------------------------------------ maskSensitiveFields
\* A request body is the JSON object the handlers marshal; of its keys the
\* model keeps those maskSensitiveFields reads, each present or absent, with
\* the decoded string values (json.Unmarshal followed by json.Marshal keeps a
\* decoded string value as it is).
Stars == <<"*", "*", "*", "*">>

\* parts := strings.Split(email, "@");
\* if len(parts) > 0 && len(parts[0]) > 3 { parts[0][:3] + "****@" + parts[1] }
\* parts[1] is an index out of range when the address holds no "@"
MaskEmail(email) ==
    LET parts == Split(email, "@")
    IN IF Len(parts) > 0 /\ Len(parts[1]) > 3
       THEN IF Len(parts) > 1
            THEN [panic |-> FALSE, value |-> SubSeq(parts[1], 1, 3) \o Stars \o <<"@">> \o parts[2]]
            ELSE [panic |-> TRUE, value |-> email]
       ELSE [panic |-> FALSE, value |-> email]

\* if len(v) > 4 { "****" + v[len(v)-4:] }
MaskTail(v) == IF Len(v) > 4 THEN Stars \o SubSeq(v, Len(v) - 3, Len(v)) ELSE v

NoCustomer == [email |-> None, mobile_number |-> None]

NoBody == [payer_email |-> None, customer |-> None, account_number |-> None, reference_id |-> None]

\* maskSensitiveFields(body): payer_email, then customer.mobile_number and
\* customer.email, then account_number; panic when a masking of an email
\* address indexes out of range
maskSensitiveFields(req) ==
    LET pe == IF req.payer_email # None THEN MaskEmail(req.payer_email[1]) ELSE [panic |-> FALSE, value |-> <<>>]
        hasCe == req.customer # None /\ req.customer[1].email # None
        ce == IF hasCe THEN MaskEmail(req.customer[1].email[1]) ELSE [panic |-> FALSE, value |-> <<>>]
        customer == IF req.customer = None THEN None
                    ELSE Some([email |-> IF hasCe THEN Some(ce.value) ELSE None,
                               mobile_number |-> IF req.customer[1].mobile_number # None THEN Some(MaskTail(req.customer[1].mobile_number[1])) ELSE None])
    IN IF pe.panic \/ ce.panic
       THEN [panic |-> TRUE, body |-> req]
       ELSE [panic |-> FALSE, body |-> [payer_email |-> IF req.payer_email # None THEN Some(pe.value) ELSE None,
                                         customer |-> customer,
                                         account_number |-> IF req.account_number # None THEN Some(MaskTail(req.account_number[1])) ELSE None,
                                         reference_id |-> req.reference_id]]

\* invoiceReq of CreatePayment: "payer_email": payer.Email, "customer":
\* {"email": payer.Email, "mobile_number": "+63" + payer.GCashNumber[1:]}.
\* The slice is out of range on an empty wallet number, which no check of
\* CreatePayment excludes for the payer.
InvoiceReq(payer) ==
    IF payer.gcash = <<>>
    THEN [panic |-> TRUE, body |-> NoBody]
    ELSE [panic |-> FALSE, body |-> [payer_email |-> Some(payer.email), customer |-> Some([email |-> Some(payer.email), mobile_number |-> Some(<<"+", "6", "3">> \o Tail(payer.gcash))]), account_number |-> None, reference_id |-> None]]

\* disReq of CreateDisbursement: "account_number": accountNumber
DisbursementReq(accountNumber) == [payer_email |-> None, customer |-> None, account_number |-> Some(accountNumber), reference_id |-> None]

\* faulty variant of DisbursementReference (sensitivity of C32): the suffix
\* alone
DisbursementReferenceFixed(referenceID) == <<Empty, "-disb">>

\* "reference_id": payment.ReferenceID + "-disb"; the string is kept as its
\* two parts
DisbursementReference(referenceID) == <<referenceID, "-disb">>

\* ------------------------------------------------------- payments collection
\* first document (natural order) that a filter bson.M{field: value} selects,
\* 0 when none
FindIndex(coll, field, value) == IF \E i \in 1..Len(coll) : coll[i][field] = value THEN CHOOSE i \in 1..Len(coll) : coll[i][field] = value /\ \A j \in 1..(i - 1) : coll[j][field] # value ELSE 0

\* Collection.FindOne(bson.M{field: value}).Decode(&payment);
\* mongo.ErrNoDocuments (NoPayment) when none
FindOne(coll, field, value) == IF FindIndex(coll, field, value) = 0 THEN NoPayment ELSE coll[FindIndex(coll, field, value)]

\* the effect of {"$set": set} on document d
ApplySet(d, set) == [f \in DOMAIN d |-> IF f \in DOMAIN set THEN set[f] ELSE d[f]]

\* Collection.UpdateOne(bson.M{field: value}, bson.M{"$set": set}): the first
\* match is updated, no match is not an error
UpdateOne(coll, field, value, set) == IF FindIndex(coll, field, value) = 0 THEN coll ELSE [coll EXCEPT ![FindIndex(coll, field, value)] = ApplySet(@, set)]

\* Collection.InsertOne: _id is unique
InsertOne(coll, doc) == IF \E i \in 1..Len(coll) : coll[i]._id = doc._id THEN [ok |-> FALSE, coll |-> coll] ELSE [ok |-> TRUE, coll |-> Append(coll, doc)]

\* The collection is handed to NewPaymentService with whatever it holds.  A
\* payment document whose _id MongoDB generated (an ObjectID, as for a document
\* inserted with an empty ID under the omitempty tag) is the only kind that the
\* _id filters of CreateDisbursement and GetPaymentByID select; CreatePayment
\* never stores one.  A behaviour starts with or without such a document.
ExistingPayment == [_id |-> BsonObjectID(1), reference_id |-> 1, payer_id |-> PayerHex, payee_id |-> FixedPayeeID, amount |-> 500, title |-> "T", description |-> "D", status |-> "PENDING", invoice_id |-> 1, disbursement_id |-> Empty, created_at |-> 0, updated_at |-> 0]

\* ------------------------------------------------------------------- state
\* payments   the "payments" collection, in natural (insertion) order
\* nextOid    the next hex value primitive.NewObjectID returns
\* nextDisb   the next disbursement id the gateway assigns
\* opsStarted handler invocations so far
\* pc, loc    per goroutine: position in the handler and its live locals
\* call       per goroutine: the handler entered last and what identifies the
\*            call (kept after it returns)
\* ret        per goroutine: what the last handler returned
\* disbSent   per payment (hex of its _id): POST /disbursements requests sent
\* succeeded  history: the payments (hex of _id) whose stored status has been
\*            SUCCEEDED at some point
\* fn         the pure function under evaluation, its argument and its result
\*            (idle while the service runs)
VARIABLES payments, nextOid, nextDisb, opsStarted, pc, loc, call, ret, disbSent, succeeded, fn, dateValue, dateMu, dateReq, bulk

vars == <<payments, nextOid, nextDisb, opsStarted, pc, loc, call, ret, disbSent, succeeded, fn, dateValue, dateMu, dateReq, bulk>>

\* the package-level state of the date handlers
dateVars == <<dateValue, dateMu, dateReq>>

\* an *http.Response: status code, the id and status fields of its JSON body,
\* the bytes of the body, and whether the body has been read and closed
NoResp == [code |-> 0, id |-> Empty, status |-> "", body |-> "", closed |-> FALSE]

\* io.ReadAll(resp.Body): nothing is left to read of a body that was read to
\* its end and closed (the error of the read is discarded)
ReadAll(resp) == IF resp.closed THEN "" ELSE resp.body

\* reqBody: the marshalled request (reqBody, _ := json.Marshal(...));
\* sent: the body of the request the last pass of the retry loop sent;
\* slept: the seconds slept after each failed pass of the retry loop so far
NoLoc == [retries |-> 0, resp |-> NoResp, payment |-> NoPayment, externalID |-> Empty, paymentID |-> Empty, invoiceID |-> Empty, accountNumber |-> <<>>, reqBody |-> NoBody, sent |-> NoBody, slept |-> <<>>]

\* op: the handler; key: its id argument (payment id, reference id, or the
\* data.id of a webhook; for CreatePayment the id of the invoice created); kind: the branch of HandleWebhook taken; matched:
\* whether the webhook's lookup or update matched a document; pre: the status
\* the handler read; envFault: whether a user lookup or a gateway attempt of
\* the call failed
NoCall == [op |-> "none", key |-> Empty, kind |-> "", matched |-> FALSE, pre |-> "", envFault |-> FALSE]

\* status: the class of the result; payment: the payment returned; code and
\* body: the status code and the response body an upstream error carries;
\* list: the payments a query returns
NoRet == [status |-> "none", payment |-> NoPayment, code |-> 0, body |-> "", list |-> <<>>]

Ret(status, payment) == [status |-> status, payment |-> payment, code |-> 0, body |-> "", list |-> <<>>]

\* no pure function is under evaluation
FnIdle == [op |-> "idle", number |-> <<>>, accepted |-> FALSE, body |-> NoBody, masked |-> NoBody, panic |-> FALSE, payer |-> NoUser, payee |-> NoUser, log |-> <<>>, arg |-> Empty, resolved |-> Empty, chk |-> "", payment |-> NoPayment]

\* --------------------------------------------------------- CreateBulkPayment
\* a call of CreateBulkPayment: its position, the users the query fetched,
\* those the loop has still to visit, the number of CreatePayment calls made,
\* the payments appended, and what it returned
NoBulk == [pc |-> "idle", fetched |-> <<>>, users |-> <<>>, attempted |-> 0, payments |-> <<>>, result |-> "none", returned |-> <<>>]

\* ------------------------------------------------------------ date handlers
\* dateValue = "2025-09-29" // default
DefaultDate == "2025-09-29"

\* what a racing read of the string may give besides the value before and
\* the value after the write: the words of both
TornDate == "<torn>"

\* dateMu sync.RWMutex: the goroutine holding the write lock (0 when none) and
\* the goroutines holding a read lock
Unlocked == [writer |-> 0, readers |-> {}]

\* a goroutine serving a date request: its position, the decoded body.Date,
\* the status code and the "date" of its response, and whether dateMu was
\* held at every access to dateValue it made
NoDateReq == [pc |-> "idle", op |-> "none", date |-> "", code |-> 0, response |-> "", locked |-> TRUE]

DateInit == /\ dateValue = DefaultDate
            /\ dateMu = Unlocked
            /\ dateReq = [p \in Procs |-> NoDateReq]

Init == /\ DateInit
        /\ bulk = NoBulk
        /\ payments \in {<<>>, <<ExistingPayment>>}
        /\ nextOid = Len(payments) + 1
        /\ nextDisb = 1
        /\ opsStarted = 0
        /\ pc = [p \in Procs |-> "idle"]
        /\ loc = [p \in Procs |-> NoLoc]
        /\ call = [p \in Procs |-> NoCall]
        /\ ret = [p \in Procs |-> NoRet]
        /\ disbSent = [h \in {} |-> 0]
        /\ succeeded = {}
        /\ fn = FnIdle

\* a handler is entered: the goroutine is free and the run is within bounds
CanStart(p) == pc[p] \in {"idle", "done"} /\ opsStarted < MaxOps

\* the handler returns: its locals die
Return(p, status, payment) == /\ pc' = [pc EXCEPT ![p] = "done"]
                              /\ ret' = [ret EXCEPT ![p] = Ret(status, payment)]
                              /\ loc' = [loc EXCEPT ![p] = NoLoc]

\* fmt.Errorf("... failed: %v, status %d: %s", err, resp.StatusCode,
\* string(body)) returned after the retry loop
ReturnUpstream(p, code, body) == /\ pc' = [pc EXCEPT ![p] = "done"]
                                 /\ ret' = [ret EXCEPT ![p] = [Ret("err_upstream", NoPayment) EXCEPT !.code = code, !.body = body]]
                                 /\ loc' = [loc EXCEPT ![p] = NoLoc]

\* faulty variant of HttpBody (sensitivity of C22): the masked copy is sent
HttpBodyMasked(reqBody) == maskSensitiveFields(reqBody).body

\* bytes.NewBuffer(reqBody): the body of each request is read from the slice
\* json.Marshal returned, which maskSensitiveFields does not write to (it
\* decodes the slice into a map of its own and marshals that)
HttpBody(reqBody) == reqBody

\* the handler goes on to the step named label with locals l
Goto(p, label, l) == /\ pc' = [pc EXCEPT ![p] = label]
                     /\ ret' = [ret EXCEPT ![p] = NoRet]
                     /\ loc' = [loc EXCEPT ![p] = l]

\* the handler moves from one of its steps to the next
Step(p, label, l) == /\ pc' = [pc EXCEPT ![p] = label]
                     /\ loc' = [loc EXCEPT ![p] = l]
                     /\ UNCHANGED ret

\* number of disbursement requests sent to the gateway for payment hex h
DisbSent(h) == IF h \in DOMAIN disbSent THEN disbSent[h] ELSE 0

CountDisb(h) == [x \in (DOMAIN disbSent) \cup {h} |-> IF x = h THEN DisbSent(h) + 1 ELSE disbSent[x]]

\* the payments of collection coll whose status is SUCCEEDED
SucceededIn(coll) == {DecodeID(coll[i]._id) : i \in {j \in 1..Len(coll) : coll[j].status = "SUCCEEDED"}}

\* the collection becomes coll: the history follows
Store(coll) == payments' = coll /\ succeeded' = succeeded \cup SucceededIn(coll)

\* the collection is left alone
NoStore == UNCHANGED <<payments, succeeded>>

\* time.Now(): the clock is read off the ObjectID generator, whose values
\* begin with the time of their generation: a time read after a later
\* primitive.NewObjectID() is later, two times read with no id generated in
\* between are equal, and every time read is later than the times of the
\* documents the collection held at the start (0)
Now == nextOid

\* faulty variant of StatusSet (sensitivity of C25): updated_at is left out
StatusSetOnly(status, now) == [status |-> status]

\* bson.M{"$set": bson.M{"status": status, "updated_at": time.Now()}}
StatusSet(status, now) == [status |-> status, updated_at |-> now]

\* faulty variant of SleepSeconds (sensitivity of C37): the delay doubles
SleepSecondsDoubling(retries) == 2 ^ (MaxRetries - retries)

\* time.Sleep(time.Second * time.Duration(3-retries)) at the end of a failed
\* pass that began with the counter at retries
SleepSeconds(retries) == 3 - retries

\* faulty variant of LoopContinues (sensitivity of C14): retries >= 0
LoopContinuesAtZero(retries) == retries - 1 >= 0

\* for retries := 3; retries > 0; retries-- : after a failed pass that began
\* with the counter at retries, another pass follows
LoopContinues(retries) == retries - 1 > 0

\* ----------------------------------------------------------- CreatePayment
Amounts == {-5, 0, 500}

Titles == {"", "T"}

Descriptions == {"", "D"}

\* statuses the gateway may report for an invoice; "VOIDED" stands for any
\* status outside the recognised vocabulary
GatewayInvoiceStatuses == {"PENDING", "PAID", "SETTLED", "EXPIRED", "VOIDED"}

\* validStatuses := map[string]bool{"PENDING", "PAID", "SETTLED", "EXPIRED"}
validStatuses == {"PENDING", "PAID", "SETTLED", "EXPIRED"}

\* faulty variant of AmountRejected (sensitivity of C26): amount < 0
AmountRejectedBelowZero(amount) == amount < 0

\* if amount <= 0 { return ... "amount must be positive" }
AmountRejected(amount) == amount <= 0

\* faulty variant of PayeeIDUsed (sensitivity of C33): the argument is kept
PayeeIDKept(payeeID) == payeeID

\* payeeID = "68d6aadf4ee098645ac87d5d": the payee id CreatePayment works with
\* after its argument passed the emptiness test
PayeeIDUsed(payeeID) == FixedPayeeID

\* the precondition checks of CreatePayment, in the order of the code; "" when
\* all of them pass.  payeeID is overwritten before it is parsed.
CreatePaymentCheck(payerID, payeeID, amount, title, description, payer, payee) ==
    IF payerID = Empty \/ payeeID = Empty THEN "err_validation"
    ELSE IF AmountRejected(amount) THEN "err_validation"
    ELSE IF title = "" \/ description = "" THEN "err_validation"
    ELSE IF ~ObjectIDFromHex(payerID).ok THEN "err_validation"
    ELSE IF ~ObjectIDFromHex(PayeeIDUsed(payeeID)).ok THEN "err_validation"
    ELSE IF ~payer.found THEN "err_not_found"
    ELSE IF ~payee.found THEN "err_not_found"
    ELSE IF payer.email = <<>> THEN "err_validation"
    ELSE IF payee.gcash = <<>> THEN "err_validation"
    ELSE IF ~GCashFormatOK(payee.gcash) THEN "err_validation"
    ELSE ""

\* a request that passes every check, and the users it resolves to
GoodInput == [payerID |-> PayerHex, payeeID |-> PayerHex, amount |-> 500, title |-> "T", description |-> "D", payer |-> User(PayerEmail, ValidGCash), payee |-> User(PayeeEmail, ValidGCash)]

\* the values each field of a request, and each user lookup, may take
FieldValues == [payerID |-> {Empty, BadHex, PayerHex}, payeeID |-> {Empty, BadHex, FixedPayeeID, PayerHex}, amount |-> Amounts, title |-> Titles, description |-> Descriptions, payer |-> PayerChoices, payee |-> PayeeChoices]

\* the requests that depart from GoodInput in at most k fields
RECURSIVE InputsWithFaults(_)
InputsWithFaults(k) == IF k = 0 THEN {GoodInput} ELSE UNION {{[in EXCEPT ![f] = v] : v \in FieldValues[f]} : in \in InputsWithFaults(k - 1), f \in DOMAIN GoodInput}

\* the requests handed to CreatePayment
CreatePaymentInputs == InputsWithFaults(MaxFaults)

\* the document CreatePayment builds from its arguments and the invoice
\* response
NewPayment(externalID, payerID, payeeID, amount, title, description, invoiceResp) == [_id |-> BsonString(externalID), reference_id |-> externalID, payer_id |-> payerID, payee_id |-> payeeID, amount |-> amount, title |-> title, description |-> description, status |-> invoiceResp.status, invoice_id |-> invoiceResp.id, disbursement_id |-> Empty, created_at |-> 0, updated_at |-> 0]

\* CreatePayment called with request in, up to the first gateway attempt:
\* trimming, validation, the two user lookups,
\* externalID := primitive.NewObjectID().Hex(), the building of invoiceReq and
\* the masking of its copy for the log
CreatePaymentOn(p, in) ==
    /\ CanStart(p)
    /\ LET chk == CreatePaymentCheck(in.payerID, in.payeeID, in.amount, in.title, in.description, in.payer, in.payee)
           req == InvoiceReq(in.payer)
       IN IF chk # ""
          THEN /\ Return(p, chk, NoPayment)
               /\ UNCHANGED nextOid
          ELSE /\ nextOid <= MaxPayments
               /\ nextOid' = nextOid + 1
               /\ IF req.panic \/ maskSensitiveFields(req.body).panic
                  THEN Return(p, "panic", NoPayment)
                  ELSE Goto(p, "cp_attempt", [NoLoc EXCEPT !.retries = MaxRetries, !.externalID = nextOid, !.payment = NewPayment(nextOid, in.payerID, PayeeIDUsed(in.payeeID), in.amount, in.title, in.description, NoResp), !.reqBody = req.body])
    /\ call' = [call EXCEPT ![p] = [NoCall EXCEPT !.op = "CreatePayment"]]
    /\ opsStarted' = opsStarted + 1
    /\ NoStore
    /\ UNCHANGED <<nextDisb, disbSent, fn, dateVars, bulk>>

CreatePayment(p) == \E in \in CreatePaymentInputs : CreatePaymentOn(p, in)

\* the body of a response that reports an error
ErrorBody == "error_code: SERVER_ERROR"

\* what client.Do may give for POST /v2/invoices: a transport error (no
\* response), a response with a status other than 200, or 200 with a body
InvoiceAnswers == {[err |-> TRUE, code |-> 0, status |-> "", url |-> "", body |-> ""], [err |-> FALSE, code |-> 500, status |-> "", url |-> "", body |-> ErrorBody]} \cup [err : {FALSE}, code : {StatusOK}, status : GatewayInvoiceStatuses, url : {"", "url"}, body : {""}]

\* one pass of the invoice retry loop on the gateway's answer.  The err tested
\* after the loop is the function's outer err, which is nil: the loop assigns
\* a variable of its own scope.  After the last failed pass the code
\* evaluates resp.StatusCode, on a nil resp when that pass ended in a
\* transport error.  A 200 answer without invoice_url or with a status outside
\* validStatuses is an error after decoding.  A pass that gets a status
\* other than 200 reads the body for its log line and closes it
\* (body, _ := io.ReadAll(resp.Body); resp.Body.Close()); the error built
\* after the loop reads resp.Body again.
CreatePaymentAttemptOn(p, answer) ==
    /\ pc[p] = "cp_attempt"
    /\ IF ~answer.err /\ answer.code = StatusOK
       THEN IF answer.url = "" \/ answer.status \notin validStatuses
            THEN Return(p, "err_upstream", NoPayment)
            ELSE Step(p, "cp_insert", [loc[p] EXCEPT !.resp = [NoResp EXCEPT !.code = answer.code, !.id = loc[p].externalID, !.status = answer.status], !.sent = HttpBody(loc[p].reqBody)])
       ELSE LET resp == IF answer.err THEN NoResp ELSE [NoResp EXCEPT !.code = answer.code, !.body = answer.body, !.closed = TRUE]
            IN IF LoopContinues(loc[p].retries) THEN Step(p, "cp_attempt", [loc[p] EXCEPT !.retries = @ - 1, !.resp = resp, !.sent = HttpBody(loc[p].reqBody), !.slept = Append(@, SleepSeconds(loc[p].retries))])
               ELSE IF resp = NoResp THEN Return(p, "panic", NoPayment)
               ELSE ReturnUpstream(p, resp.code, ReadAll(resp))
    /\ NoStore
    /\ UNCHANGED <<nextOid, nextDisb, opsStarted, call, disbSent, fn, dateVars, bulk>>

CreatePaymentAttempt(p) == \E answer \in InvoiceAnswers : CreatePaymentAttemptOn(p, answer)

\* faulty variant of FailedInsert (sensitivity of C29): the document is in the
\* collection although the insert was reported as failed
FailedInsertKept(coll, doc) == Append(coll, doc)

\* the collection after InsertOne returned an error: the document was not
\* written, and the handler returns without another write
FailedInsert(coll, doc) == coll

\* payment := &models.Payment{..., CreatedAt: time.Now(), UpdatedAt:
\* time.Now()}; InsertOne; return payment.  The call keeps the invoice id the
\* gateway issued as its key.
CreatePaymentInsert(p) ==
    /\ pc[p] = "cp_insert"
    /\ LET payment == [loc[p].payment EXCEPT !.status = loc[p].resp.status, !.invoice_id = loc[p].resp.id, !.created_at = Now, !.updated_at = Now]
           ins == InsertOne(payments, payment)
       IN \E storeOK \in BOOLEAN :
            IF storeOK /\ ins.ok
            THEN Store(ins.coll) /\ Return(p, "ok", payment)
            ELSE Store(FailedInsert(payments, payment)) /\ Return(p, "err_persistence", NoPayment)
    /\ call' = [call EXCEPT ![p].pre = loc[p].resp.status, ![p].key = loc[p].resp.id]
    /\ UNCHANGED <<nextOid, nextDisb, opsStarted, disbSent, fn, dateVars, bulk>>

\* ----------------------------------------------------------- UpdatePayment
\* strings a caller may pass as an id: not hex ("asd"), the id of a document,
\* or a well-formed id that no document carries yet
IdInputs == {BadHex} \cup (1..nextOid)

\* UpdatePayment up to its status check: FindOne by reference_id
UpdatePayment(p) ==
    /\ CanStart(p)
    /\ \E paymentID \in IdInputs :
         LET payment == FindOne(payments, "reference_id", paymentID)
         IN /\ call' = [call EXCEPT ![p] = [NoCall EXCEPT !.op = "UpdatePayment", !.key = paymentID, !.matched = (payment # NoPayment), !.pre = payment.status]]
            /\ IF payment = NoPayment THEN Return(p, "err_not_found", NoPayment)
               ELSE IF payment.status # "PENDING" THEN Return(p, "err_conflict", NoPayment)
               ELSE Goto(p, "up_write", [NoLoc EXCEPT !.paymentID = paymentID])
    /\ opsStarted' = opsStarted + 1
    /\ NoStore
    /\ UNCHANGED <<nextOid, nextDisb, disbSent, fn, dateVars, bulk>>

\* UpdateOne(reference_id, $set status SUCCEEDED): the filter does not test
\* the status
UpdatePaymentWrite(p) ==
    /\ pc[p] = "up_write"
    /\ Store(UpdateOne(payments, "reference_id", loc[p].paymentID, StatusSet("SUCCEEDED", Now)))
    /\ Step(p, "up_refetch", loc[p])
    /\ UNCHANGED <<nextOid, nextDisb, opsStarted, call, disbSent, fn, dateVars, bulk>>

\* the second FindOne, whose result is returned
UpdatePaymentRefetch(p) ==
    /\ pc[p] = "up_refetch"
    /\ LET updatedPayment == FindOne(payments, "reference_id", loc[p].paymentID)
       IN IF updatedPayment = NoPayment THEN Return(p, "err_persistence", NoPayment) ELSE Return(p, "ok", updatedPayment)
    /\ NoStore
    /\ UNCHANGED <<nextOid, nextDisb, opsStarted, call, disbSent, fn, dateVars, bulk>>

\* ------------------------------------------------------ CreateDisbursement
\* statuses the gateway may report for a disbursement
GatewayDisbursementStatuses == {"PENDING", "SUCCEEDED", "FAILED"}

\* faulty variant of DisbursementStatus (sensitivity of C17): the status is
\* written through as received
DisbursementStatusRaw(st) == st

\* if disResp.Status != "PENDING" && disResp.Status != "SUCCEEDED" { "SUCCEEDED" }
DisbursementStatus(st) == IF st # "PENDING" /\ st # "SUCCEEDED" THEN "SUCCEEDED" ELSE st

\* faulty variant of Disbursable (sensitivity of C15): no gate
DisbursableAlways(payment) == TRUE

\* the status gate of CreateDisbursement
Disbursable(payment) == payment.status = "SUCCEEDED"

\* the filter of CreateDisbursement's (and GetPaymentByID's) lookup
PaymentIDFilter(paymentID) == ObjectIDFromHex(paymentID).oid

\* CreateDisbursement up to the first gateway attempt: parsing of the id,
\* FindOne by _id, the status gate, the payee lookup (which finds payee), the
\* wallet checks, the building of disReq and the masking of its copy
CreateDisbursementFind(p, paymentID, payee) ==
    LET parsed == ObjectIDFromHex(paymentID)
        payment == FindOne(payments, "_id", PaymentIDFilter(paymentID))
    IN IF ~parsed.ok THEN Return(p, "err_validation", NoPayment) /\ UNCHANGED call
       ELSE IF payment = NoPayment THEN Return(p, "err_not_found", NoPayment) /\ UNCHANGED call
       ELSE IF ~Disbursable(payment) THEN Return(p, "err_conflict", NoPayment) /\ UNCHANGED call
       ELSE IF ~ObjectIDFromHex(payment.payee_id).ok THEN Return(p, "err_validation", NoPayment) /\ UNCHANGED call
       ELSE IF ~payee.found THEN Return(p, "err_not_found", NoPayment) /\ call' = [call EXCEPT ![p].envFault = TRUE]
       ELSE IF payee.gcash = <<>> \/ ~GCashFormatOK(payee.gcash) THEN Return(p, "err_validation", NoPayment) /\ call' = [call EXCEPT ![p].envFault = TRUE]
       ELSE IF maskSensitiveFields(DisbursementReq(payee.gcash)).panic THEN Return(p, "panic", NoPayment) /\ UNCHANGED call
       ELSE Step(p, "cd_attempt", [NoLoc EXCEPT !.paymentID = paymentID, !.payment = payment, !.retries = MaxRetries, !.accountNumber = payee.gcash, !.reqBody = [DisbursementReq(payee.gcash) EXCEPT !.reference_id = Some(DisbursementReference(payment.reference_id))]]) /\ UNCHANGED call

\* CreateDisbursement called on its own
CreateDisbursement(p) ==
    /\ CanStart(p)
    /\ \E paymentID \in IdInputs :
         /\ call' = [call EXCEPT ![p] = [NoCall EXCEPT !.op = "CreateDisbursement", !.key = paymentID]]
         /\ Goto(p, "cd_find", [NoLoc EXCEPT !.paymentID = paymentID])
    /\ opsStarted' = opsStarted + 1
    /\ NoStore
    /\ UNCHANGED <<nextOid, nextDisb, disbSent, fn, dateVars, bulk>>

\* the first part of CreateDisbursement, entered on its own or from
\* HandleWebhook, when the user store answers the payee lookup with payee
CreateDisbursementLookupOn(p, payee) ==
    /\ pc[p] = "cd_find"
    /\ CreateDisbursementFind(p, loc[p].paymentID, payee)
    /\ NoStore
    /\ UNCHANGED <<nextOid, nextDisb, opsStarted, disbSent, fn, dateVars, bulk>>

CreateDisbursementLookup(p) == \E payee \in PayeeChoices : CreateDisbursementLookupOn(p, payee)

\* what client.Do may give for POST /disbursements
DisbursementAnswers == {[err |-> TRUE, code |-> 0, status |-> "", body |-> ""], [err |-> FALSE, code |-> 500, status |-> "", body |-> ErrorBody]} \cup [err : {FALSE}, code : {StatusCreated, StatusAccepted}, status : GatewayDisbursementStatuses, body : {""}]

\* one pass of the disbursement retry loop on the gateway's answer; as in
\* CreatePayment the err tested after the loop is the outer one (nil) and resp
\* is nil after a transport error
CreateDisbursementAttemptOn(p, answer) ==
    /\ pc[p] = "cd_attempt"
    /\ disbSent' = CountDisb(DecodeID(loc[p].payment._id))
    /\ IF ~answer.err /\ (answer.code = StatusCreated \/ answer.code = StatusAccepted)
       THEN /\ Step(p, "cd_update", [loc[p] EXCEPT !.resp = [NoResp EXCEPT !.code = answer.code, !.id = nextDisb, !.status = answer.status], !.sent = HttpBody(loc[p].reqBody)])
            /\ nextDisb' = nextDisb + 1
            /\ UNCHANGED call
       ELSE LET resp == IF answer.err THEN NoResp ELSE [NoResp EXCEPT !.code = answer.code, !.body = answer.body, !.closed = TRUE]
            IN /\ IF LoopContinues(loc[p].retries) THEN Step(p, "cd_attempt", [loc[p] EXCEPT !.retries = @ - 1, !.resp = resp, !.sent = HttpBody(loc[p].reqBody), !.slept = Append(@, SleepSeconds(loc[p].retries))])
                  ELSE IF resp = NoResp THEN Return(p, "panic", NoPayment)
                  ELSE ReturnUpstream(p, resp.code, ReadAll(resp))
               /\ call' = [call EXCEPT ![p].envFault = TRUE]
               /\ UNCHANGED nextDisb
    /\ NoStore
    /\ UNCHANGED <<nextOid, opsStarted, fn, dateVars, bulk>>

CreateDisbursementAttempt(p) == \E answer \in DisbursementAnswers : CreateDisbursementAttemptOn(p, answer)

\* decoding of the disbursement response and UpdateOne(_id, $set
\* disbursement_id, status, updated_at)
CreateDisbursementUpdate(p) ==
    /\ pc[p] = "cd_update"
    /\ Store(UpdateOne(payments, "_id", PaymentIDFilter(loc[p].paymentID), [disbursement_id |-> loc[p].resp.id, status |-> DisbursementStatus(loc[p].resp.status), updated_at |-> Now]))
    /\ Return(p, "ok", NoPayment)
    /\ UNCHANGED <<nextOid, nextDisb, opsStarted, call, disbSent, fn, dateVars, bulk>>

\* ------------------------------------------------------------ HandleWebhook
\* payload["event"]: NoEvent when absent or not a string
NoEvent == "<none>"

InvoiceEvents == {"invoice.created", "invoice.paid", "invoice.expired"}

\* data["status"]: "" when absent or not a string
WebhookStatuses == {"", "PAID", "SETTLED", "EXPIRED", "PENDING", "SUCCEEDED", "FAILED"}

\* the payloads delivered: without an event, with an event and no data object,
\* and with an event and a data object carrying id and status.  Of the three
\* invoice events, which the code does not tell apart, two are delivered.
PayloadsWithoutData == {[event |-> e, hasData |-> FALSE, id |-> Empty, status |-> ""] : e \in {NoEvent, "invoice.paid", "ph_disbursement.completed", "payment.other"}}

PayloadsWithData(ids) == [event : {"invoice.paid", "invoice.expired", "ph_disbursement.completed"}, hasData : {TRUE}, id : ids, status : WebhookStatuses]

\* faulty variant of InvoiceBranch (sensitivity of C11): the final else is
\* taken for an expiry
InvoiceBranchElseExpired(status) == IF status = "PAID" \/ status = "SETTLED" THEN "paid" ELSE "expired"

\* the branch HandleWebhook takes on an invoice event
InvoiceBranch(status) == IF status = "PAID" \/ status = "SETTLED" THEN "paid" ELSE IF status = "EXPIRED" THEN "expired" ELSE "ignored"

\* HandleWebhook called with payload, up to its first write: classification
\* of the payload and, for an invoice event, FindOne by invoice_id; for a
\* disbursement event the whole handler, a single UpdateOne by disbursement_id
HandleWebhookOn(p, payload) ==
    /\ CanStart(p)
    /\ LET eventType == payload.event
           hasData == payload.hasData
           id == payload.id
           status == payload.status
           c == [NoCall EXCEPT !.op = "HandleWebhook", !.key = id]
           payment == FindOne(payments, "invoice_id", id)
           disStatus == DisbursementStatus(status)
           hit == FindIndex(payments, "disbursement_id", id) # 0
       IN IF eventType = NoEvent
          THEN /\ Return(p, "err_validation", NoPayment)
               /\ call' = [call EXCEPT ![p] = [c EXCEPT !.kind = "malformed", !.key = Empty]]
               /\ NoStore
          ELSE IF eventType \in InvoiceEvents
          THEN IF ~hasData
               THEN /\ Return(p, "err_validation", NoPayment)
                    /\ call' = [call EXCEPT ![p] = [c EXCEPT !.kind = "malformed", !.key = Empty]]
                    /\ NoStore
               ELSE IF payment = NoPayment
               THEN /\ Return(p, "err_not_found", NoPayment)
                    /\ call' = [call EXCEPT ![p] = [c EXCEPT !.kind = "invoice"]]
                    /\ NoStore
               ELSE /\ call' = [call EXCEPT ![p] = [c EXCEPT !.kind = InvoiceBranch(status), !.matched = TRUE, !.pre = payment.status]]
                    /\ NoStore
                    /\ IF InvoiceBranch(status) = "paid" THEN Goto(p, "hw_paid", [NoLoc EXCEPT !.invoiceID = id, !.payment = payment])
                       ELSE IF InvoiceBranch(status) = "expired" THEN Goto(p, "hw_expired", [NoLoc EXCEPT !.invoiceID = id, !.payment = payment])
                       ELSE Return(p, "ok", NoPayment)
          ELSE IF eventType = "ph_disbursement.completed"
          THEN IF ~hasData
               THEN /\ Return(p, "err_validation", NoPayment)
                    /\ call' = [call EXCEPT ![p] = [c EXCEPT !.kind = "malformed", !.key = Empty]]
                    /\ NoStore
               ELSE /\ Store(UpdateOne(payments, "disbursement_id", id, StatusSet(disStatus, Now)))
                    /\ call' = [call EXCEPT ![p] = [c EXCEPT !.kind = "disbursement", !.matched = hit]]
                    /\ Return(p, "ok", NoPayment)
          ELSE /\ Return(p, "ok", NoPayment)
               /\ call' = [call EXCEPT ![p] = [c EXCEPT !.kind = "unhandled", !.key = Empty]]
               /\ NoStore
    /\ opsStarted' = opsStarted + 1
    /\ UNCHANGED <<nextOid, nextDisb, disbSent, fn, dateVars, bulk>>

\* http.StatusInternalServerError
StatusInternalServerError == 500

\* PaymentHandler.Webhook, once the token matched and the body decoded: the
\* status code it answers with for what HandleWebhook returned.  Every error
\* is answered with http.StatusInternalServerError; a panic ends the
\* connection without a response (0).
WebhookResponse(status) == IF status = "panic" THEN 0 ELSE IF status # "ok" THEN StatusInternalServerError ELSE StatusOK

\* the payloads delivered: data.id ranges over the ids in use and one more
Payloads == PayloadsWithoutData \cup PayloadsWithData(0..nextOid)

HandleWebhook(p) == \E payload \in Payloads : HandleWebhookOn(p, payload)

\* http.StatusUnauthorized, http.StatusBadRequest
StatusUnauthorized == 401

StatusBadRequest == 400

\* r.Header.Get("x-callback-token"): "" for a request without the header
HeaderGet(header) == IF header = None THEN "" ELSE header[1]

\* os.Getenv("XENDIT_WEBHOOK_TOKEN"): "" for a variable that is not set
Getenv(env) == IF env = None THEN "" ELSE env[1]

\* the x-callback-token header of a request: absent, empty, the secret, or
\* another value; XENDIT_WEBHOOK_TOKEN in the environment: not set, empty, or
\* the secret
HeaderTokens == {None, Some(""), Some("secret"), Some("other")}

ConfiguredTokens == {None, Some(""), Some("secret")}

\* PaymentHandler.Webhook for a request with the given header and body, the
\* environment holding env: the token comparison (401), the decoding of the
\* body (400), then HandleWebhook with the decoded payload
WebhookOn(p, env, header, decodes, payload) ==
    IF HeaderGet(header) # Getenv(env) \/ ~decodes
    THEN /\ CanStart(p)
         /\ Return(p, IF HeaderGet(header) # Getenv(env) THEN "err_unauthorized" ELSE "err_bad_request", NoPayment)
         /\ call' = [call EXCEPT ![p] = [NoCall EXCEPT !.op = "Webhook"]]
         /\ NoStore
         /\ opsStarted' = opsStarted + 1
         /\ UNCHANGED <<nextOid, nextDisb, disbSent, fn, dateVars, bulk>>
    ELSE HandleWebhookOn(p, payload)

\* the status code PaymentHandler.Webhook answers with
WebhookStatusCode(status) == IF status = "err_unauthorized" THEN StatusUnauthorized ELSE IF status = "err_bad_request" THEN StatusBadRequest ELSE WebhookResponse(status)

\* what the environment holds is an input of the step that reads it
Webhook(p) == \E env \in ConfiguredTokens, header \in HeaderTokens, decodes \in BOOLEAN, payload \in Payloads : WebhookOn(p, env, header, decodes, payload)

\* UpdateOne(invoice_id, $set status SUCCEEDED), then the call of
\* CreateDisbursement with the ID decoded by the earlier FindOne
HandleWebhookPaid(p) ==
    /\ pc[p] = "hw_paid"
    /\ Store(UpdateOne(payments, "invoice_id", loc[p].invoiceID, StatusSet("SUCCEEDED", Now)))
    /\ Step(p, "cd_find", [NoLoc EXCEPT !.paymentID = DecodeID(loc[p].payment._id)])
    /\ UNCHANGED <<nextOid, nextDisb, opsStarted, call, disbSent, fn, dateVars, bulk>>

\* UpdateOne(invoice_id, $set status EXPIRED)
HandleWebhookExpired(p) ==
    /\ pc[p] = "hw_expired"
    /\ Store(UpdateOne(payments, "invoice_id", loc[p].invoiceID, StatusSet("EXPIRED", Now)))
    /\ Return(p, "ok", NoPayment)
    /\ UNCHANGED <<nextOid, nextDisb, opsStarted, call, disbSent, fn, dateVars, bulk>>

\* ----------------------------------------------------------- GetPaymentByID
GetPaymentByID(p) ==
    /\ CanStart(p)
    /\ \E paymentID \in IdInputs :
         LET payment == FindOne(payments, "_id", PaymentIDFilter(paymentID))
         IN /\ call' = [call EXCEPT ![p] = [NoCall EXCEPT !.op = "GetPaymentByID", !.key = paymentID]]
            /\ IF ~ObjectIDFromHex(paymentID).ok THEN Return(p, "err_validation", NoPayment)
               ELSE IF payment = NoPayment THEN Return(p, "err_not_found", NoPayment)
               ELSE Return(p, "ok", payment)
    /\ opsStarted' = opsStarted + 1
    /\ NoStore
    /\ UNCHANGED <<nextOid, nextDisb, disbSent, fn, dateVars, bulk>>

\* -------------------------------------------------------------- GetPayments
\* a date argument that is nil or empty, and one time.Parse rejects; any
\* other is the time itself
NoDate == -1

BadDate == -2

\* the arguments offered: no filter, the three statuses of the filter's map,
\* one outside it; no date, an unparsable one, and times that lie between
\* those of the stored documents
StatusFilters == {"", "PENDING", "SUCCEEDED", "EXPIRED", "PAID"}

Dates == {NoDate, BadDate} \cup (1..MaxPayments)

\* query := bson.M{"status": bson.M{"$in": [...]}}; query["status"] =
\* *statusFilter when a filter is given
QueryStatuses(statusFilter) == IF statusFilter # "" THEN {statusFilter} ELSE {"PENDING", "SUCCEEDED", "EXPIRED"}

\* the places in coll of the documents the query selects; created_at is
\* tested only when both dates are given
Selected(coll, statusFilter, startDate, endDate) == {i \in 1..Len(coll) : coll[i].status \in QueryStatuses(statusFilter) /\ ((startDate # NoDate /\ endDate # NoDate) => (coll[i].created_at >= startDate /\ coll[i].created_at <= endDate))}

\* Find(..., SetSort(bson.M{"created_at": -1})): the documents at places idxs
\* by decreasing created_at, those of equal created_at in natural order
RECURSIVE FindSorted(_, _)
FindSorted(coll, idxs) == IF idxs = {} THEN <<>> ELSE LET i == CHOOSE k \in idxs : \A j \in idxs : coll[k].created_at > coll[j].created_at \/ (coll[k].created_at = coll[j].created_at /\ k <= j) IN <<coll[i]>> \o FindSorted(coll, idxs \ {i})

\* GetPayments(statusFilter, startDate, endDate)
GetPaymentsOn(p, statusFilter, startDate, endDate) ==
    /\ CanStart(p)
    /\ call' = [call EXCEPT ![p] = [NoCall EXCEPT !.op = "GetPayments"]]
    /\ pc' = [pc EXCEPT ![p] = "done"]
    /\ loc' = [loc EXCEPT ![p] = NoLoc]
    /\ ret' = [ret EXCEPT ![p] = IF statusFilter # "" /\ statusFilter \notin {"PENDING", "SUCCEEDED", "EXPIRED"} THEN Ret("err_validation", NoPayment)
                                 ELSE IF startDate # NoDate /\ endDate # NoDate /\ (startDate = BadDate \/ endDate = BadDate) THEN Ret("err_validation", NoPayment)
                                 ELSE [Ret("ok", NoPayment) EXCEPT !.list = FindSorted(payments, Selected(payments, statusFilter, startDate, endDate))]]
    /\ opsStarted' = opsStarted + 1
    /\ NoStore
    /\ UNCHANGED <<nextOid, nextDisb, disbSent, fn, dateVars, bulk>>

GetPayments(p) == \E statusFilter \in StatusFilters, startDate \in Dates, endDate \in Dates : GetPaymentsOn(p, statusFilter, startDate, endDate)

\* --------------------------------------------------------------------- Next
\* one step of a handler run by goroutine p
Handler(p) == \/ CreatePayment(p)
              \/ CreatePaymentAttempt(p)
              \/ CreatePaymentInsert(p)
              \/ UpdatePayment(p)
              \/ UpdatePaymentWrite(p)
              \/ UpdatePaymentRefetch(p)
              \/ CreateDisbursement(p)
              \/ CreateDisbursementLookup(p)
              \/ CreateDisbursementAttempt(p)
              \/ CreateDisbursementUpdate(p)
              \/ HandleWebhook(p)
              \/ HandleWebhookPaid(p)
              \/ HandleWebhookExpired(p)
              \/ GetPaymentByID(p)

Next == \E p \in Procs : Handler(p)

Spec == Init /\ [][Next]_vars

\* The handlers called one after another: every call runs to its return
\* before the next one starts.  What a single call does on given inputs does
\* not depend on other goroutines; the claims about single calls are checked
\* on this specification.  The listing query, which writes nothing, is among
\* the calls here.
SeqNext == Handler(1) \/ GetPayments(1)

SeqSpec == Init /\ [][SeqNext]_vars

\* Disbursements for two payments: the collection holds two payments with
\* generated _ids, each with the reference id of its creation, which earlier
\* confirmations moved to SUCCEEDED, and goroutines call CreateDisbursement.
DisbursablePayments == <<[ExistingPayment EXCEPT !.status = "SUCCEEDED"], [ExistingPayment EXCEPT !._id = BsonObjectID(2), !.reference_id = 2, !.invoice_id = 2, !.status = "SUCCEEDED"]>>

DisbInit == /\ DateInit
            /\ bulk = NoBulk
            /\ payments = DisbursablePayments
            /\ nextOid = Len(payments) + 1
            /\ nextDisb = 1
            /\ opsStarted = 0
            /\ pc = [p \in Procs |-> "idle"]
            /\ loc = [p \in Procs |-> NoLoc]
            /\ call = [p \in Procs |-> NoCall]
            /\ ret = [p \in Procs |-> NoRet]
            /\ disbSent = [h \in {} |-> 0]
            /\ succeeded = SucceededIn(payments)
            /\ fn = FnIdle

DisbNext == \E p \in Procs : CreateDisbursement(p) \/ CreateDisbursementLookup(p) \/ CreateDisbursementAttempt(p) \/ CreateDisbursementUpdate(p)

DisbSpec == DisbInit /\ [][DisbNext]_vars

\* Webhook deliveries over HTTP, one after the other: the requests reach
\* PaymentHandler.Webhook
WebhookNext == Webhook(1) \/ HandleWebhookPaid(1) \/ HandleWebhookExpired(1) \/ CreateDisbursementLookup(1) \/ CreateDisbursementAttempt(1) \/ CreateDisbursementUpdate(1)

WebhookSpec == Init /\ [][WebhookNext]_vars

\* ---------------------------------------------- CreateBulkPayment, continued
\* the most users a query fetches
MaxUsers == 2

\* documents of the "user" collection: the fixed payee, a payer with email and
\* wallet number, one without a wallet number, one without an email address
BulkUsers == {[id |-> FixedPayeeID, user |-> User(PayeeEmail, ValidGCash)], [id |-> PayerHex, user |-> User(PayerEmail, ValidGCash)], [id |-> PayerHex + 1, user |-> User(PayerEmail, <<>>)], [id |-> PayerHex + 2, user |-> User(<<>>, ValidGCash)]}

\* what Find and cur.All may give: sequences of distinct users
FetchedUsers == {us \in UNION {[1..n -> BulkUsers] : n \in 0..MaxUsers} : \A i \in DOMAIN us, j \in DOMAIN us : i # j => us[i].id # us[j].id}

\* CreateBulkPayment up to its loop: Find and cur.All (an error of either is
\* returned), then the test len(users) == 0
CreateBulkPayment ==
    /\ bulk.pc = "idle"
    /\ pc[1] = "idle"
    /\ \/ bulk' = [NoBulk EXCEPT !.pc = "done", !.result = "err"]
       \/ \E users \in FetchedUsers : bulk' = IF users = <<>> THEN [NoBulk EXCEPT !.pc = "done", !.result = "err"]
                                                ELSE [NoBulk EXCEPT !.pc = "loop", !.fetched = users, !.users = users]
    /\ UNCHANGED <<payments, nextOid, nextDisb, opsStarted, pc, loc, call, ret, disbSent, succeeded, fn, dateVars>>

\* if user.ID.Hex() == "68d6aadf4ee098645ac87d5d" { continue }
BulkSkip ==
    /\ bulk.pc = "loop"
    /\ pc[1] = "idle"
    /\ bulk.users # <<>>
    /\ Head(bulk.users).id = FixedPayeeID
    /\ bulk' = [bulk EXCEPT !.users = Tail(@)]
    /\ UNCHANGED <<payments, nextOid, nextDisb, opsStarted, pc, loc, call, ret, disbSent, succeeded, fn, dateVars>>

\* s.CreatePayment(ctx, user.ID.Hex(), "68d6aadf4ee098645ac87d5d", amount,
\* title, description) for the next user; the payer lookup finds that user
BulkCall ==
    /\ bulk.pc = "loop"
    /\ pc[1] = "idle"
    /\ bulk.users # <<>>
    /\ Head(bulk.users).id # FixedPayeeID
    /\ \E payee \in PayeeChoices : CreatePaymentOn(1, [GoodInput EXCEPT !.payerID = Head(bulk.users).id, !.payeeID = FixedPayeeID, !.payer = Head(bulk.users).user, !.payee = payee])

\* CreatePayment has returned: on an error the loop continues, otherwise the
\* payment is appended; a panic of CreatePayment ends CreateBulkPayment
BulkCollect ==
    /\ bulk.pc = "loop"
    /\ pc[1] = "done"
    /\ bulk' = IF ret[1].status = "panic" THEN [bulk EXCEPT !.pc = "done", !.result = "panic", !.attempted = @ + 1]
               ELSE [bulk EXCEPT !.users = Tail(@), !.attempted = @ + 1, !.payments = IF ret[1].status = "ok" THEN Append(@, ret[1].payment) ELSE @]
    /\ pc' = [pc EXCEPT ![1] = "idle"]
    /\ UNCHANGED <<payments, nextOid, nextDisb, opsStarted, loc, call, ret, disbSent, succeeded, fn, dateVars>>

\* after the loop: the test len(payments) == 0, then return payments, nil
BulkReturn ==
    /\ bulk.pc = "loop"
    /\ pc[1] = "idle"
    /\ bulk.users = <<>>
    /\ bulk' = IF bulk.payments = <<>> THEN [bulk EXCEPT !.pc = "done", !.result = "err"]
               ELSE [bulk EXCEPT !.pc = "done", !.result = "ok", !.returned = bulk.payments]
    /\ UNCHANGED <<payments, nextOid, nextDisb, opsStarted, pc, loc, call, ret, disbSent, succeeded, fn, dateVars>>

BulkNext == CreateBulkPayment \/ BulkSkip \/ BulkCall \/ CreatePaymentAttempt(1) \/ CreatePaymentInsert(1) \/ BulkCollect \/ BulkReturn

\* one call of CreateBulkPayment
BulkSpec == Init /\ [][BulkNext]_vars

\* ------------------------------------------------- date handlers, continued
\* the bodies posted to UpdateDateHandler: whether the JSON decodes, and
\* body.Date ("" when the key is absent)
PostedDates == {"", "2025-10-01", "2025-10-02"}

DateFree(p) == dateReq[p].pc \in {"idle", "done"}

ServiceQuiet == UNCHANGED <<payments, nextOid, nextDisb, opsStarted, pc, loc, call, ret, disbSent, succeeded, fn, bulk>>

\* GetDateHandler: dateMu.RLock()
GetDateRLock(p) ==
    /\ DateFree(p)
    /\ dateMu.writer = 0
    /\ dateMu' = [dateMu EXCEPT !.readers = @ \cup {p}]
    /\ dateReq' = [dateReq EXCEPT ![p] = [NoDateReq EXCEPT !.pc = "get_read", !.op = "GetDate"]]
    /\ UNCHANGED dateValue
    /\ ServiceQuiet

\* GetDateHandler: response := {"date": dateValue}; dateMu.RUnlock(); the
\* response is encoded
GetDateRead(p) ==
    /\ dateReq[p].pc = "get_read"
    /\ dateReq' = [dateReq EXCEPT ![p].pc = "done", ![p].code = StatusOK, ![p].response = dateValue, ![p].locked = @ /\ p \in dateMu.readers]
    /\ dateMu' = [dateMu EXCEPT !.readers = @ \ {p}]
    /\ UNCHANGED dateValue
    /\ ServiceQuiet

\* UpdateDateHandler up to dateMu.Lock(): the decoding of the body (400 when
\* it fails) and the test body.Date == "" (400)
UpdateDateOn(p, decodes, date) ==
    /\ DateFree(p)
    /\ dateReq' = [dateReq EXCEPT ![p] = IF ~decodes \/ date = "" THEN [NoDateReq EXCEPT !.pc = "done", !.op = "UpdateDate", !.code = StatusBadRequest]
                                         ELSE [NoDateReq EXCEPT !.pc = "upd_lock", !.op = "UpdateDate", !.date = date]]
    /\ UNCHANGED <<dateValue, dateMu>>
    /\ ServiceQuiet

UpdateDate(p) == \E decodes \in BOOLEAN, date \in PostedDates : UpdateDateOn(p, decodes, date)

\* UpdateDateHandler: dateMu.Lock()
UpdateDateLock(p) ==
    /\ dateReq[p].pc = "upd_lock"
    /\ dateMu = Unlocked
    /\ dateMu' = [dateMu EXCEPT !.writer = p]
    /\ dateReq' = [dateReq EXCEPT ![p].pc = "upd_write"]
    /\ UNCHANGED dateValue
    /\ ServiceQuiet

\* UpdateDateHandler: dateValue = body.Date; dateMu.Unlock()
UpdateDateWrite(p) ==
    /\ dateReq[p].pc = "upd_write"
    /\ dateValue' = dateReq[p].date
    /\ dateMu' = [dateMu EXCEPT !.writer = 0]
    /\ dateReq' = [dateReq EXCEPT ![p].pc = "upd_respond", ![p].locked = @ /\ dateMu.writer = p]
    /\ ServiceQuiet

\* the values a read of dateValue by goroutine p may give: the stored value,
\* and, while another goroutine is at its write, that goroutine's value or a
\* torn string (the read and the write race)
DateReadBy(p) == {dateValue} \cup UNION {{dateReq[q].date, TornDate} : q \in {r \in Procs \ {p} : dateReq[r].pc = "upd_write"}}

\* UpdateDateHandler: response := {"message": ..., "date": dateValue}, after
\* dateMu.Unlock(); the response is encoded
UpdateDateRespond(p) ==
    /\ dateReq[p].pc = "upd_respond"
    /\ \E read \in DateReadBy(p) : dateReq' = [dateReq EXCEPT ![p].pc = "done", ![p].code = StatusOK, ![p].response = read, ![p].locked = @ /\ (dateMu.writer = p \/ p \in dateMu.readers)]
    /\ UNCHANGED <<dateValue, dateMu>>
    /\ ServiceQuiet

DateNext == \E p \in Procs : GetDateRLock(p) \/ GetDateRead(p) \/ UpdateDate(p) \/ UpdateDateLock(p) \/ UpdateDateWrite(p) \/ UpdateDateRespond(p)

\* the date handlers alone, the payment service at rest
DateSpec == Init /\ [][DateNext]_vars

\* ------------------------------------------------------------ pure functions
\* The wallet-number test and maskSensitiveFields are functions of their
\* argument alone.  FnSpec evaluates them on every argument of a bounded set:
\* a behaviour starts with one argument and applies the function once, while
\* the service stays in its initial state.
Digits == {"0", "1", "9"}

\* wallet numbers: every length up to MaxNumberLen, with a choice of the first
\* and of the other characters, and the three numbers named above
Numbers == {[i \in 1..n |-> IF i = 1 THEN c ELSE d] : n \in 0..MaxNumberLen, c \in Digits, d \in Digits} \cup {ValidGCash, NoLeadingZeroGCash, ShortGCash}

EmailChars == {"a", "b", "@"}

\* every string over EmailChars of length at most n
RECURSIVE StringsUpTo(_)
StringsUpTo(n) == IF n = 0 THEN {<<>>} ELSE LET shorter == StringsUpTo(n - 1) IN shorter \cup {Append(t, c) : t \in shorter, c \in EmailChars}

\* "abcdef@example.com"
ExampleEmail == <<"a", "b", "c", "d", "e", "f", "@", "e", "x", "a", "m", "p", "l", "e", ".", "c", "o", "m">>

Emails == StringsUpTo(MaxEmailLen) \cup {ExampleEmail, PayerEmail, NoAtEmail}

\* request bodies: one with each email address as payer_email, one with each
\* as customer.email, one with each number as customer.mobile_number, one
\* with each as account_number, and the bodies the two handlers build
Bodies == {[NoBody EXCEPT !.payer_email = Some(e)] : e \in Emails}
          \cup {[NoBody EXCEPT !.customer = Some([NoCustomer EXCEPT !.email = Some(e)])] : e \in Emails}
          \cup {[NoBody EXCEPT !.customer = Some([NoCustomer EXCEPT !.mobile_number = Some(n)])] : n \in Numbers}
          \cup {DisbursementReq(n) : n \in Numbers}
          \cup {InvoiceReq(u).body : u \in {v \in PayerChoices : v.found /\ v.gcash # <<>>}}

\* the values of the keys of a JSON body that hold user data, in the order
\* json.Marshal writes the keys of a map (sorted): account_number,
\* customer.email, customer.mobile_number, payer_email
BodyValues(body) == body.account_number \o (IF body.customer = None THEN <<>> ELSE body.customer[1].email \o body.customer[1].mobile_number) \o body.payer_email

\* one log.Printf call: the source line and the user values it prints
LogEntry(line, values) == [line |-> line, values |-> values]

\* the log.Printf calls of CreatePayment that print user data, in order, once
\* both users have been found: "Payer found ... Email=%s" (payer.Email),
\* "Payee found ... GCashNumber=%s" (payee.GCashNumber), "Invalid payee GCash
\* number format: %s" and "Xendit invoice request body: %s" (the masked copy)
CreatePaymentLog(payer, payee) ==
    <<LogEntry(316, <<payer.email>>), LogEntry(325, <<payee.gcash>>)>>
    \o IF payer.email = <<>> \/ payee.gcash = <<>> THEN <<>>
       ELSE IF ~GCashFormatOK(payee.gcash) THEN <<LogEntry(336, <<payee.gcash>>)>>
       ELSE IF InvoiceReq(payer).panic \/ maskSensitiveFields(InvoiceReq(payer).body).panic THEN <<>>
       ELSE <<LogEntry(372, BodyValues(maskSensitiveFields(InvoiceReq(payer).body).body))>>

\* the same for CreateDisbursement once the payee has been found: "Invalid
\* payee GCash number format: %s", "Using account number for disbursement:
\* %s" (accountNumber) and "Xendit disbursement request body: %s"
CreateDisbursementLog(payee) ==
    IF payee.gcash = <<>> THEN <<>>
    ELSE IF ~GCashFormatOK(payee.gcash) THEN <<LogEntry(547, <<payee.gcash>>)>>
    ELSE <<LogEntry(552, <<payee.gcash>>)>>
         \o IF maskSensitiveFields(DisbursementReq(payee.gcash)).panic THEN <<>>
            ELSE <<LogEntry(570, BodyValues(maskSensitiveFields(DisbursementReq(payee.gcash)).body))>>

\* users as the store returns them: those of the handlers' lookups and one
\* with each email address or wallet number of the sets above
FoundUsers == {u \in PayerChoices \cup PayeeChoices : u.found} \cup {User(e, ValidGCash) : e \in {ExampleEmail, <<"a", "b", "@", "a">>}} \cup {User(PayeeEmail, n) : n \in {<<"0", "9", "1", "2">>}}

FnInit == /\ DateInit
          /\ bulk = NoBulk
          /\ payments = <<>>
          /\ nextOid = 1
          /\ nextDisb = 1
          /\ opsStarted = 0
          /\ pc = [p \in Procs |-> "idle"]
          /\ loc = [p \in Procs |-> NoLoc]
          /\ call = [p \in Procs |-> NoCall]
          /\ ret = [p \in Procs |-> NoRet]
          /\ disbSent = [h \in {} |-> 0]
          /\ succeeded = {}
          /\ fn \in {[FnIdle EXCEPT !.op = "number", !.number = n] : n \in Numbers} \cup {[FnIdle EXCEPT !.op = "body", !.body = b] : b \in Bodies}
                    \cup {[FnIdle EXCEPT !.op = "create", !.payer = u, !.payee = v] : u \in FoundUsers, v \in FoundUsers}
                    \cup {[FnIdle EXCEPT !.op = "disburse", !.payee = v] : v \in FoundUsers}
                    \cup {[FnIdle EXCEPT !.op = "payee", !.arg = a] : a \in FieldValues.payeeID}
                    \cup {[FnIdle EXCEPT !.op = "invoice", !.payer = u] : u \in {v \in PayerChoices : v.found}}

\* the wallet-number test applied to fn.number
CheckGCashNumber ==
    /\ fn.op = "number"
    /\ fn' = [fn EXCEPT !.op = "checked", !.accepted = GCashFormatOK(fn.number)]
    /\ UNCHANGED <<payments, nextOid, nextDisb, opsStarted, pc, loc, call, ret, disbSent, succeeded, dateVars, bulk>>

\* maskSensitiveFields applied to fn.body
MaskBody ==
    /\ fn.op = "body"
    /\ fn' = [fn EXCEPT !.op = "masked", !.masked = maskSensitiveFields(fn.body).body, !.panic = maskSensitiveFields(fn.body).panic]
    /\ UNCHANGED <<payments, nextOid, nextDisb, opsStarted, pc, loc, call, ret, disbSent, succeeded, dateVars, bulk>>

\* the log lines of CreatePayment for the users fn.payer and fn.payee
LogCreatePayment ==
    /\ fn.op = "create"
    /\ fn' = [fn EXCEPT !.op = "create_logged", !.log = CreatePaymentLog(fn.payer, fn.payee)]
    /\ UNCHANGED <<payments, nextOid, nextDisb, opsStarted, pc, loc, call, ret, disbSent, succeeded, dateVars, bulk>>

\* the log lines of CreateDisbursement for the payee fn.payee
LogCreateDisbursement ==
    /\ fn.op = "disburse"
    /\ fn' = [fn EXCEPT !.op = "disburse_logged", !.log = CreateDisbursementLog(fn.payee)]
    /\ UNCHANGED <<payments, nextOid, nextDisb, opsStarted, pc, loc, call, ret, disbSent, succeeded, dateVars, bulk>>

\* CreatePayment's handling of the payee id argument fn.arg, the other
\* arguments and both users being those of GoodInput: the id parsed and looked
\* up, the outcome of the checks and the document built
ResolvePayee ==
    /\ fn.op = "payee"
    /\ fn' = [fn EXCEPT !.op = "payee_resolved", !.resolved = IF fn.arg = Empty THEN Empty ELSE PayeeIDUsed(fn.arg),
                        !.chk = CreatePaymentCheck(GoodInput.payerID, fn.arg, GoodInput.amount, GoodInput.title, GoodInput.description, GoodInput.payer, GoodInput.payee),
                        !.payment = IF fn.arg = Empty THEN NoPayment ELSE NewPayment(1, GoodInput.payerID, PayeeIDUsed(fn.arg), GoodInput.amount, GoodInput.title, GoodInput.description, NoResp)]
    /\ UNCHANGED <<payments, nextOid, nextDisb, opsStarted, pc, loc, call, ret, disbSent, succeeded, dateVars, bulk>>

\* CreatePayment for the payer fn.payer, the arguments and the payee being
\* those of GoodInput: the checks, then the building of invoiceReq
BuildInvoiceReq ==
    /\ fn.op = "invoice"
    /\ LET chk == CreatePaymentCheck(GoodInput.payerID, GoodInput.payeeID, GoodInput.amount, GoodInput.title, GoodInput.description, fn.payer, GoodInput.payee)
       IN fn' = [fn EXCEPT !.op = "invoice_built", !.chk = chk,
                           !.body = IF chk = "" THEN InvoiceReq(fn.payer).body ELSE NoBody,
                           !.panic = chk = "" /\ InvoiceReq(fn.payer).panic]
    /\ UNCHANGED <<payments, nextOid, nextDisb, opsStarted, pc, loc, call, ret, disbSent, succeeded, dateVars, bulk>>

\* safeReqBody := maskSensitiveFields(reqBody) on the invoiceReq built
MaskInvoiceReq ==
    /\ fn.op = "invoice_built"
    /\ fn.chk = ""
    /\ ~fn.panic
    /\ fn' = [fn EXCEPT !.op = "invoice_masked", !.masked = maskSensitiveFields(fn.body).body, !.panic = maskSensitiveFields(fn.body).panic]
    /\ UNCHANGED <<payments, nextOid, nextDisb, opsStarted, pc, loc, call, ret, disbSent, succeeded, dateVars, bulk>>

FnNext == CheckGCashNumber \/ MaskBody \/ LogCreatePayment \/ LogCreateDisbursement \/ ResolvePayee \/ BuildInvoiceReq \/ MaskInvoiceReq

FnSpec == FnInit /\ [][FnNext]_vars

\* ================================================================== claims
\* the stored document whose _id has hex form h (NoPayment when none)
PaymentOfHex(h) == IF \E i \in 1..Len(payments) : DecodeID(payments[i]._id) = h THEN payments[CHOOSE i \in 1..Len(payments) : DecodeID(payments[i]._id) = h] ELSE NoPayment

\* document d was stored by CreatePayment, whose _id is the string externalID
StoredByCreatePayment(d) == d._id.kind = "string"

\* goroutine p has returned from handler name
Returned(p, name) == pc[p] = "done" /\ call[p].op = name

\* goroutine p has returned from a HandleWebhook delivery of a paid/settled
\* invoice event for invoice inv that matched a payment
PaidDelivered(p, inv) == Returned(p, "HandleWebhook") /\ call[p].kind = "paid" /\ call[p].matched /\ call[p].key = inv

\* C1: once two deliveries of the paid/settled invoice event for a payment's
\* invoice id have been handled, exactly one disbursement request has been
\* sent to the gateway for that payment (stated for the payments CreatePayment
\* stored, and for deliveries during which the payee was found with a valid
\* wallet number and no gateway attempt failed).
C1_OneDisbursementPerPayment == \A p \in Procs, q \in Procs, i \in 1..Len(payments) : (p # q /\ StoredByCreatePayment(payments[i]) /\ PaidDelivered(p, payments[i].invoice_id) /\ PaidDelivered(q, payments[i].invoice_id) /\ ~call[p].envFault /\ ~call[q].envFault) => DisbSent(DecodeID(payments[i]._id)) = 1

C3_NoReturnToPending == [][\A i \in 1..Len(payments) : (StoredByCreatePayment(payments[i]) /\ (payments[i].status = "EXPIRED" \/ (payments[i].status = "SUCCEEDED" /\ payments[i].disbursement_id # Empty))) => payments'[i].status # "PENDING"]_vars

\* C4: no step changes the status of an EXPIRED payment or sends a
\* disbursement request for it (stated for the payments CreatePayment stored).
C4_ExpiredIsTerminal == [][\A i \in 1..Len(payments) : (StoredByCreatePayment(payments[i]) /\ payments[i].status = "EXPIRED") => (payments'[i].status = "EXPIRED" /\ DisbSent(DecodeID(payments[i]._id))' = DisbSent(DecodeID(payments[i]._id)))]_vars

\* C5: for one payment at most one UpdatePayment call returns success, and a
\* call that finds the document not PENDING returns the conflict error (the
\* first part stated for the payments CreatePayment stored).
C5_SingleConfirmation == /\ \A p \in Procs, q \in Procs : (p # q /\ Returned(p, "UpdatePayment") /\ Returned(q, "UpdatePayment") /\ call[p].key = call[q].key /\ ret[p].status = "ok" /\ StoredByCreatePayment(ret[p].payment)) => ret[q].status # "ok"
                         /\ \A p \in Procs : (Returned(p, "UpdatePayment") /\ call[p].matched /\ call[p].pre # "PENDING") => ret[p].status = "err_conflict"

\* C6: when HandleWebhook has handled a paid/settled invoice event for a
\* payment that CreatePayment stored (string _id) and that was PENDING, and
\* neither the payee lookup nor a gateway attempt of the call failed, it has
\* returned nil, exactly one disbursement request has been sent and the
\* document carries a non-empty disbursement id.
C6_PaidWebhookDisburses == \A p \in Procs, i \in 1..Len(payments) : (PaidDelivered(p, payments[i].invoice_id) /\ payments[i]._id.kind = "string" /\ call[p].pre = "PENDING" /\ ~call[p].envFault) => (ret[p].status = "ok" /\ DisbSent(DecodeID(payments[i]._id)) = 1 /\ payments[i].disbursement_id # Empty)

\* C7: every stored payment's status is PENDING, SUCCEEDED or EXPIRED.
C7_StatusVocabulary == \A i \in 1..Len(payments) : payments[i].status \in {"PENDING", "SUCCEEDED", "EXPIRED"}

\* the normalisation of a gateway invoice status: paid and settled are
\* SUCCEEDED, an unrecognised status is PENDING
NormalizedInvoiceStatus(st) == IF st \in {"PAID", "SETTLED"} THEN "SUCCEEDED" ELSE IF st \in {"PENDING", "EXPIRED"} THEN st ELSE "PENDING"

\* a step of CreatePayment by goroutine p in which the handler returns
CreatePaymentReturns(p) == (CreatePayment(p) \/ CreatePaymentAttempt(p) \/ CreatePaymentInsert(p)) /\ pc'[p] = "done"

\* C8: a CreatePayment call that returns a payment has appended exactly that
\* one document, with a reference id no stored document had and with the
\* normalised gateway status; a call that returns an error has added nothing.
C8_CreateStoresOne == [][\A p \in Procs : CreatePaymentReturns(p) =>
                           IF ret'[p].status = "ok"
                           THEN /\ payments' = Append(payments, ret'[p].payment)
                                /\ \A i \in 1..Len(payments) : payments[i].reference_id # ret'[p].payment.reference_id
                                /\ ret'[p].payment.status = NormalizedInvoiceStatus(loc[p].resp.status)
                           ELSE payments' = payments]_vars

\* C9: GetPaymentByID called with the id of a payment that CreatePayment
\* returned finds it, with the amount, title and description stored and a
\* status of PENDING or SUCCEEDED.
C9_CreateGetRoundTrip == \A p \in Procs, i \in 1..Len(payments) : (Returned(p, "GetPaymentByID") /\ payments[i]._id = BsonString(call[p].key)) => (ret[p].status = "ok" /\ ret[p].payment.amount = payments[i].amount /\ ret[p].payment.title = payments[i].title /\ ret[p].payment.description = payments[i].description /\ ret[p].payment.status \in {"PENDING", "SUCCEEDED"})

\* C10: a webhook event with a data object whose id matches no payment (an
\* invoice event by invoice id, a disbursement completion by disbursement
\* id) makes HandleWebhook return the not-found error.
C10_UnknownRecordNotFound == \A p \in Procs : (Returned(p, "HandleWebhook") /\ call[p].kind \in {"invoice", "disbursement"} /\ ~call[p].matched) => ret[p].status = "err_not_found"

\* C11: an invoice event whose data.status is none of PAID, SETTLED, EXPIRED
\* (a missing status included), and an event whose type is neither an invoice
\* event nor ph_disbursement.completed, is handled in one step that returns,
\* leaves the collection as it was and sends no gateway request.
C11_OtherEventsChangeNothing == [][\A p \in Procs : \A payload \in Payloads : ((payload.event \notin InvoiceEvents \cup {"ph_disbursement.completed"} \/ (payload.event \in InvoiceEvents /\ payload.status \notin {"PAID", "SETTLED", "EXPIRED"})) /\ HandleWebhookOn(p, payload)) => (pc'[p] = "done" /\ payments' = payments /\ disbSent' = disbSent)]_vars

\* an invoice event with another status has been handled for a stored payment
C11_Witness == \E p \in Procs : Returned(p, "HandleWebhook") /\ call[p].kind = "ignored" /\ call[p].matched /\ Len(payments) > 0

\* a request violates a precondition of CreatePayment: an id is empty or not
\* valid hex, the amount is not positive, title or description is empty, payer
\* or payee is not found, the payer has no email, the payee's wallet number is
\* empty or does not start with "0" or is not 11 long
PreconditionViolated(in) == \/ in.payerID = Empty \/ in.payeeID = Empty
                            \/ in.amount <= 0
                            \/ in.title = "" \/ in.description = ""
                            \/ in.payerID = BadHex \/ in.payeeID = BadHex
                            \/ ~in.payer.found \/ ~in.payee.found
                            \/ in.payer.email = <<>>
                            \/ in.payee.gcash = <<>> \/ Len(in.payee.gcash) # 11 \/ in.payee.gcash[1] # "0"

\* C12: a CreatePayment call whose request violates a precondition returns a
\* validation or not-found error in its first step, before any gateway
\* attempt, and inserts nothing.
C12_CreatePaymentFailsFast == [][\A p \in Procs : \A in \in CreatePaymentInputs : (PreconditionViolated(in) /\ CreatePaymentOn(p, in)) => (pc'[p] = "done" /\ ret'[p].status \in {"err_validation", "err_not_found"} /\ payments' = payments)]_vars

\* the number of the pass of the retry loop that goroutine p is about to make
AttemptNo(p) == MaxRetries - loc[p].retries + 1

\* C13: when the third pass of the retry loop fails as the two before it, by
\* a transport error or by a status that is not allow-listed, CreatePayment
\* and CreateDisbursement return the upstream error and leave the collection
\* as it was.
C13_ExhaustedRetriesReturnError == [][\A p \in Procs : /\ \A a \in InvoiceAnswers : ((a.err \/ a.code # 200) /\ AttemptNo(p) = 3 /\ CreatePaymentAttemptOn(p, a)) => (ret'[p].status = "err_upstream" /\ payments' = payments)
                                                       /\ \A a \in DisbursementAnswers : ((a.err \/ a.code \notin {201, 202}) /\ AttemptNo(p) = 3 /\ CreateDisbursementAttemptOn(p, a)) => (ret'[p].status = "err_upstream" /\ payments' = payments)]_vars

\* C14: every pass of a retry loop is the first, second or third of its call;
\* after an allow-listed answer (200 for the invoice, 201 or 202 for the
\* disbursement) and after the third pass no further pass follows.
C14_AtMostThreeAttempts == [][\A p \in Procs : /\ \A a \in InvoiceAnswers : CreatePaymentAttemptOn(p, a) => (AttemptNo(p) \in 1..3 /\ ((~a.err /\ a.code = 200) \/ AttemptNo(p) = 3 => pc'[p] # "cp_attempt"))
                                               /\ \A a \in DisbursementAnswers : CreateDisbursementAttemptOn(p, a) => (AttemptNo(p) \in 1..3 /\ ((~a.err /\ a.code \in {201, 202}) \/ AttemptNo(p) = 3 => pc'[p] # "cd_attempt"))]_vars

\* a CreateDisbursement call has returned after three failed passes, all for
\* one payment
C14_Witness == \E p \in Procs, h \in DOMAIN disbSent : Returned(p, "CreateDisbursement") /\ ret[p].status = "err_upstream" /\ disbSent[h] = 3

\* C15: every stored payment with a non-empty disbursement id has had status
\* SUCCEEDED at some earlier point.
C15_DisbursedWasSucceeded == \A i \in 1..Len(payments) : payments[i].disbursement_id # Empty => DecodeID(payments[i]._id) \in succeeded

\* a payment carries a disbursement id while its status is PENDING again
C15_Witness == \E i \in 1..Len(payments) : payments[i].disbursement_id # Empty /\ payments[i].status = "PENDING"

\* C16: on a 200 answer to the invoice request that carries an invoice URL
\* and a status outside PENDING, PAID, SETTLED, EXPIRED, CreatePayment goes on
\* to store the payment, with status PENDING.
C16_UnknownStatusCoerced == [][\A p \in Procs : \A a \in InvoiceAnswers : (~a.err /\ a.code = 200 /\ a.url # "" /\ a.status \notin {"PENDING", "PAID", "SETTLED", "EXPIRED"} /\ CreatePaymentAttemptOn(p, a)) => (pc'[p] = "cp_insert" /\ loc'[p].resp.status = "PENDING")]_vars

\* C17: a ph_disbursement.completed event whose data.id is the disbursement
\* id of a stored payment changes, in one such payment, the status to the
\* event's status when that is PENDING or SUCCEEDED and to SUCCEEDED
\* otherwise, and changes nothing else in the collection but the updated_at
\* of that payment.
C17_DisbursementEventWritesStatus == [][\A p \in Procs : \A payload \in Payloads : (payload.event = "ph_disbursement.completed" /\ payload.hasData /\ (\E i \in 1..Len(payments) : payments[i].disbursement_id = payload.id) /\ HandleWebhookOn(p, payload)) => \E i \in 1..Len(payments) : payments[i].disbursement_id = payload.id /\ [payments' EXCEPT ![i].updated_at = payments[i].updated_at] = [payments EXCEPT ![i].status = IF payload.status \in {"PENDING", "SUCCEEDED"} THEN payload.status ELSE "SUCCEEDED"]]_vars

\* a disbursement completion has been handled for the disbursement id that
\* CreateDisbursement recorded on a payment
C17_Witness == \E p \in Procs : Returned(p, "HandleWebhook") /\ call[p].kind = "disbursement" /\ call[p].matched /\ call[p].key # Empty

\* wallet number n starts with "0" and is 11 long
WalletFormat(n) == Len(n) = 11 /\ n[1] = "0"

\* C18: every pass of the disbursement retry loop sends as account number a
\* wallet number that starts with "0" and is 11 long, the one the payee
\* lookup of the same call returned; a call whose payee lookup returns any
\* other wallet number returns an error in that step and sends nothing.
C18_DisbursementAccountValid == [][\A p \in Procs : /\ \A a \in DisbursementAnswers : CreateDisbursementAttemptOn(p, a) => WalletFormat(loc[p].accountNumber)
                                                    /\ \A payee \in PayeeChoices : (CreateDisbursementLookupOn(p, payee) /\ pc'[p] = "cd_attempt") => (loc'[p].accountNumber = payee.gcash /\ WalletFormat(payee.gcash))
                                                    /\ \A payee \in PayeeChoices : (CreateDisbursementLookupOn(p, payee) /\ payee.found /\ ~WalletFormat(payee.gcash)) => (pc'[p] = "done" /\ ret'[p].status # "ok" /\ disbSent' = disbSent)]_vars

\* a disbursement request has been sent and answered
C18_Witness == \E p \in Procs : pc[p] = "cd_update" /\ WalletFormat(loc[p].accountNumber) /\ DisbSent(loc[p].paymentID) > 0

\* C19: the wallet-number test accepts a number exactly when its first
\* character is "0" and its length is 11; it rejects "12345678901" and
\* "091234567" and accepts "09123456789".
C19_WalletCheck == fn.op = "checked" => /\ fn.accepted = (Len(fn.number) = 11 /\ fn.number[1] = "0")
                                        /\ fn.number = <<"1", "2", "3", "4", "5", "6", "7", "8", "9", "0", "1">> => ~fn.accepted
                                        /\ fn.number = <<"0", "9", "1", "2", "3", "4", "5", "6", "7">> => ~fn.accepted
                                        /\ fn.number = <<"0", "9", "1", "2", "3", "4", "5", "6", "7", "8", "9">> => fn.accepted

\* the test has accepted "09123456789"
C19_Witness == fn.op = "checked" /\ fn.number = <<"0", "9", "1", "2", "3", "4", "5", "6", "7", "8", "9">> /\ fn.accepted

\* the place of the first "@" of e (0 when there is none), the local part
\* before it and the domain after it
FirstAt(e) == IF \E i \in 1..Len(e) : e[i] = "@" THEN CHOOSE i \in 1..Len(e) : e[i] = "@" /\ \A j \in 1..(i - 1) : e[j] # "@" ELSE 0

LocalPart(e) == SubSeq(e, 1, FirstAt(e) - 1)

DomainPart(e) == SubSeq(e, FirstAt(e) + 1, Len(e))

\* e is an address: a non-empty local part, one "@", a non-empty domain
IsAddress(e) == Cardinality({i \in 1..Len(e) : e[i] = "@"}) = 1 /\ Len(LocalPart(e)) > 0 /\ Len(DomainPart(e)) > 0

\* the first 3 characters of the local part, "****", "@" and the domain
MaskedAddress(e) == SubSeq(LocalPart(e), 1, IF Len(LocalPart(e)) < 3 THEN Len(LocalPart(e)) ELSE 3) \o <<"*", "*", "*", "*", "@">> \o DomainPart(e)

\* C20: maskSensitiveFields returns, for a body whose payer_email or
\* customer.email is an address, a body in which that field is the first 3
\* characters of the local part, then "****", then "@" and the domain.
C20_EmailMasked == fn.op = "masked" => /\ (fn.body.payer_email # None /\ IsAddress(fn.body.payer_email[1])) => (~fn.panic /\ fn.masked.payer_email = Some(MaskedAddress(fn.body.payer_email[1])))
                                       /\ (fn.body.customer # None /\ fn.body.customer[1].email # None /\ IsAddress(fn.body.customer[1].email[1])) => (~fn.panic /\ fn.masked.customer[1].email = Some(MaskedAddress(fn.body.customer[1].email[1])))

\* "****" and the last 4 characters of v (all of v when it has fewer)
MaskedNumber(v) == <<"*", "*", "*", "*">> \o SubSeq(v, IF Len(v) > 4 THEN Len(v) - 3 ELSE 1, Len(v))

\* C21: maskSensitiveFields returns, for a body with an account_number or a
\* customer.mobile_number, when it returns, a body in which that value is
\* "****" followed by the last 4 characters of the original; "09123456789"
\* becomes "****6789".
C21_NumbersMasked == (fn.op = "masked" /\ ~fn.panic) => /\ fn.body.account_number # None => fn.masked.account_number = Some(MaskedNumber(fn.body.account_number[1]))
                                                        /\ (fn.body.customer # None /\ fn.body.customer[1].mobile_number # None) => fn.masked.customer[1].mobile_number = Some(MaskedNumber(fn.body.customer[1].mobile_number[1]))
                                                        /\ fn.body.account_number = Some(<<"0", "9", "1", "2", "3", "4", "5", "6", "7", "8", "9">>) => fn.masked.account_number = Some(<<"*", "*", "*", "*", "6", "7", "8", "9">>)

\* C22: the body of the request sent in every pass of either retry loop is
\* the request as the handler marshalled it from its inputs, with the payer's
\* email address and the wallet number in full; it stays the same from one
\* pass to the next and is not the masked copy written to the log.
C22_OriginalBodySent == [][\A p \in Procs : /\ \A in \in CreatePaymentInputs : (CreatePaymentOn(p, in) /\ pc'[p] = "cp_attempt") => loc'[p].reqBody = [payer_email |-> Some(in.payer.email), customer |-> Some([email |-> Some(in.payer.email), mobile_number |-> Some(<<"+", "6", "3">> \o Tail(in.payer.gcash))]), account_number |-> None, reference_id |-> None]
                                            /\ \A payee \in PayeeChoices : (CreateDisbursementLookupOn(p, payee) /\ pc'[p] = "cd_attempt") => loc'[p].reqBody = [payer_email |-> None, customer |-> None, account_number |-> Some(payee.gcash), reference_id |-> Some(<<loc'[p].payment.reference_id, "-disb">>)]
                                            /\ \A a \in InvoiceAnswers : (CreatePaymentAttemptOn(p, a) /\ pc'[p] # "done") => (loc'[p].sent = loc[p].reqBody /\ loc'[p].reqBody = loc[p].reqBody)
                                            /\ \A a \in DisbursementAnswers : (CreateDisbursementAttemptOn(p, a) /\ pc'[p] # "done") => (loc'[p].sent = loc[p].reqBody /\ loc'[p].reqBody = loc[p].reqBody)]_vars

\* two passes of the invoice retry loop have sent the request, whose body
\* differs from its masked copy
C22_Witness == \E p \in Procs : pc[p] = "cp_attempt" /\ loc[p].retries = 1 /\ loc[p].sent = loc[p].reqBody /\ loc[p].sent.payer_email = Some(PayerEmail) /\ loc[p].sent # maskSensitiveFields(loc[p].reqBody).body

\* v occurs in s as a run of consecutive characters
Contains(s, v) == \E i \in 1..(Len(s) - Len(v) + 1) : SubSeq(s, i, i + Len(v) - 1) = v

\* the email addresses and wallet numbers of the users of the call
UserValues == {v \in {fn.payer.email, fn.payer.gcash, fn.payee.email, fn.payee.gcash} : v # <<>>}

\* C23: no log line of CreatePayment or CreateDisbursement prints the
\* email address or the wallet number of a user of the call in full.
C23_LogsMasked == fn.op \in {"create_logged", "disburse_logged"} => \A i \in 1..Len(fn.log) : \A k \in 1..Len(fn.log[i].values) : \A v \in UserValues : ~Contains(fn.log[i].values[k], v)

\* C24: a webhook whose payload lacks the event, or the data object of an
\* event the handler processes, is answered with a 4xx status and changes
\* nothing, while a webhook for an invoice that no payment carries is
\* answered with a 5xx status.
C24_MalformedWebhookRejected == [][\A p \in Procs : \A payload \in Payloads : /\ (HandleWebhookOn(p, payload) /\ (payload.event = NoEvent \/ (~payload.hasData /\ payload.event \in InvoiceEvents \cup {"ph_disbursement.completed"}))) => (pc'[p] = "done" /\ WebhookResponse(ret'[p].status) \in 400..499 /\ payments' = payments /\ disbSent' = disbSent)
                                                                              /\ (HandleWebhookOn(p, payload) /\ pc'[p] = "done" /\ ret'[p].status = "err_not_found") => WebhookResponse(ret'[p].status) \in 500..599]_vars

\* C25: a step leaves every stored payment in place with the created_at it
\* had, gives a payment it inserts the current time as created_at, and gives
\* a payment whose status it changes the current time as updated_at.
C25_Timestamps == [][/\ Len(payments') >= Len(payments)
                     /\ \A i \in 1..Len(payments) : payments'[i]._id = payments[i]._id /\ payments'[i].created_at = payments[i].created_at
                     /\ \A i \in 1..Len(payments) : payments'[i].status # payments[i].status => payments'[i].updated_at = nextOid'
                     /\ \A i \in (Len(payments) + 1)..Len(payments') : payments'[i].created_at = nextOid' /\ payments'[i].updated_at = nextOid']_vars

\* a payment stored by CreatePayment has had its status written at a later
\* time than its creation
C25_Witness == \E i \in 1..Len(payments) : StoredByCreatePayment(payments[i]) /\ payments[i].created_at > 0 /\ payments[i].updated_at > payments[i].created_at /\ payments[i].status = "SUCCEEDED"

\* C26: every stored payment has an amount greater than 0.
C26_AmountPositive == \A i \in 1..Len(payments) : payments[i].amount > 0

\* CreatePayment has stored a payment, with the amount of its request
C26_Witness == \E p \in Procs, i \in 1..Len(payments) : Returned(p, "CreatePayment") /\ ret[p].status = "ok" /\ ret[p].payment = payments[i] /\ payments[i].amount = 500

\* the places of the stored payments that match filter f (any status when
\* f is empty) and whose created_at lies in the range, when one is given
Matching(f, sd, ed) == {i \in 1..Len(payments) : (f = "" \/ payments[i].status = f) /\ (sd # NoDate => (payments[i].created_at >= sd /\ payments[i].created_at <= ed))}

\* C27: GetPayments changes no record; a non-empty filter other than PENDING,
\* SUCCEEDED and EXPIRED is an error; otherwise, with no date or with a range
\* of two dates, it returns exactly the stored payments that match the filter
\* and the range, each once, by decreasing created_at.
C27_GetPaymentsExact == [][\A p \in Procs : call'[p].op = "GetPayments" => \A f \in StatusFilters, sd \in Dates, ed \in Dates : /\ GetPaymentsOn(p, f, sd, ed) => payments' = payments
                                                                                                                                /\ (GetPaymentsOn(p, f, sd, ed) /\ f \notin {"", "PENDING", "SUCCEEDED", "EXPIRED"}) => ret'[p].status # "ok"
                                                                                                                                /\ (GetPaymentsOn(p, f, sd, ed) /\ f \in {"", "PENDING", "SUCCEEDED", "EXPIRED"} /\ ((sd = NoDate /\ ed = NoDate) \/ (sd >= 0 /\ ed >= 0))) => (ret'[p].status = "ok" /\ Len(ret'[p].list) = Cardinality(Matching(f, sd, ed)) /\ {ret'[p].list[k] : k \in 1..Len(ret'[p].list)} = {payments[i] : i \in Matching(f, sd, ed)} /\ \A k \in 1..(Len(ret'[p].list) - 1) : ret'[p].list[k].created_at >= ret'[p].list[k + 1].created_at)]_vars

\* C28: when UpdatePayment has returned a payment it moved to SUCCEEDED, a
\* disbursement request for that payment has been sent to the gateway.
C28_UpdatePaymentDisburses == \A p \in Procs : (Returned(p, "UpdatePayment") /\ ret[p].status = "ok" /\ ret[p].payment.status = "SUCCEEDED") => DisbSent(DecodeID(ret[p].payment._id)) > 0

C30_ErrorCarriesStatusAndBody == [][\A p \in Procs : /\ \A a \in InvoiceAnswers : (CreatePaymentAttemptOn(p, a) /\ ~a.err /\ a.code # 200 /\ AttemptNo(p) = 3) => (pc'[p] = "done" /\ ret'[p].status = "err_upstream" /\ ret'[p].code = a.code /\ ret'[p].body = a.body)
                                                     /\ \A a \in DisbursementAnswers : (CreateDisbursementAttemptOn(p, a) /\ ~a.err /\ a.code \notin {201, 202} /\ AttemptNo(p) = 3) => (pc'[p] = "done" /\ ret'[p].status = "err_upstream" /\ ret'[p].code = a.code /\ ret'[p].body = a.body)]_vars

\* C31: when HandleWebhook has returned an error for a paid or settled
\* invoice event, the payment of that invoice has the status the handler read
\* at its start.
C31_FailedWebhookLeavesStatus == \A p \in Procs : (Returned(p, "HandleWebhook") /\ call[p].kind = "paid" /\ call[p].matched /\ ret[p].status \notin {"ok", "panic", "none"}) => FindOne(payments, "invoice_id", call[p].key).status = call[p].pre

\* goroutine p has sent a disbursement request and not yet returned
HasSent(p) == pc[p] \in {"cd_attempt", "cd_update"} /\ loc[p].sent # NoBody

C33_PayeeOverwritten == fn.op = "payee_resolved" => ((fn.arg # Empty => (fn.resolved = FixedPayeeID /\ fn.payment.payee_id = FixedPayeeID /\ fn.chk = "")) /\ (fn.arg = Empty => fn.chk = "err_validation"))

\* a payee id argument that is no ObjectID hex has been resolved to the fixed
\* identifier
C33_Witness == fn.op = "payee_resolved" /\ fn.arg = BadHex /\ fn.payment.payee_id = FixedPayeeID /\ fn.chk = ""

\* C34: for every payer found, CreatePayment builds the invoice request
\* only with a non-empty payer wallet number, and the building ends without a
\* panic.
C34_InvoiceReqBuilt == (fn.op = "invoice_built" /\ fn.chk = "") => (fn.payer.gcash # <<>> /\ ~fn.panic)

\* C35: maskSensitiveFields returns a result for every request body
\* CreatePayment passes to it.
C35_MaskReturns == fn.op = "invoice_masked" => ~fn.panic

\* C36: the webhook endpoint invokes HandleWebhook only for a request whose
\* x-callback-token equals the configured token, and a request without the
\* header is answered 401 and changes no record, whatever the environment
\* holds for the token.
C36_WebhookTokenRequired == [][\A p \in Procs : \A env \in ConfiguredTokens, header \in HeaderTokens, decodes \in BOOLEAN, payload \in Payloads : WebhookOn(p, env, header, decodes, payload) => ((call'[p].op = "HandleWebhook" => HeaderGet(header) = Getenv(env)) /\ (header = None => (call'[p].op = "Webhook" /\ WebhookStatusCode(ret'[p].status) = StatusUnauthorized /\ payments' = payments)))]_vars

\* the pass of a retry loop that goroutine p is in has failed and the loop
\* has ended with it, in the step taken
LastPassFailed(p) == pc[p] \in {"cp_attempt", "cd_attempt"} /\ loc[p].retries = 1 /\ pc'[p] = "done" /\ (ret'[p].status = "panic" \/ (ret'[p].status = "err_upstream" /\ ret'[p].code # 0))

\* C37: within one retry loop, of CreatePayment and of CreateDisbursement,
\* each delay slept after a failed attempt is one second longer than the
\* delay before it, the sleep after the last failed attempt included.
C37_DelayGrowsLinearly == [](\A p \in Procs : \A i \in 2..Len(loc[p].slept) : loc[p].slept[i] = loc[p].slept[i - 1] + 1) /\ [][\A p \in Procs : LastPassFailed(p) => (Len(loc[p].slept) = MaxRetries - 1 /\ SleepSeconds(loc[p].retries) = loc[p].slept[Len(loc[p].slept)] + 1)]_vars

\* both loops have slept twice, one goroutine in each
C37_Witness == \E p \in Procs, q \in Procs : pc[p] = "cp_attempt" /\ loc[p].slept = <<0, 1>> /\ pc[q] = "cd_attempt" /\ loc[q].slept = <<0, 1>>

\* C39: every access to dateValue by GetDateHandler and UpdateDateHandler is
\* made while dateMu is held, and the date in the response of an
\* UpdateDateHandler request that wrote is the date the request wrote.
C39_DateUnderLock == \A p \in Procs : (dateReq[p].pc = "done" /\ dateReq[p].code = StatusOK) => (dateReq[p].locked /\ (dateReq[p].op = "UpdateDate" => dateReq[p].response = dateReq[p].date))

\* the fetched users other than the fixed payee
OtherUsers == {i \in DOMAIN bulk.fetched : bulk.fetched[i].id # FixedPayeeID}

\* the payments CreatePayment has stored
Created == {payments[i] : i \in {j \in DOMAIN payments : StoredByCreatePayment(payments[j])}}

\* C38: CreateBulkPayment returns; it has then called CreatePayment once for
\* every fetched user other than the fixed payee, whatever the earlier calls
\* returned; it returns an error exactly when no user was fetched or no
\* payment was created, and otherwise exactly the payments created.
C38_BulkPayment == bulk.pc = "done" => (bulk.result \in {"ok", "err"} /\ bulk.attempted = Cardinality(OtherUsers) /\ (bulk.result = "err" <=> (bulk.fetched = <<>> \/ Created = {})) /\ (bulk.result = "ok" => {bulk.returned[i] : i \in DOMAIN bulk.returned} = Created))

====
